---- MODULE Spec2Model ----
(***************************************************************************)
(* Model of repo_crawler/crawl.py: crawl_repo_files, verify_branch_exists  *)
(* and main.  A Python str is a sequence of one-character strings, so that *)
(* split, rsplit, join, startswith and the f-string formatting are         *)
(* computed the way the code computes them.                                *)
(***************************************************************************)
EXTENDS Integers, Sequences, FiniteSets, TLC

VARIABLES
    github_path,    \* argument of crawl_repo_files
    include_exts,   \* argument: set of extensions (empty when None or [])
    exclude_exts,   \* argument: set of extensions (empty when None or [])
    files,          \* the remote repository: what glob, info and open answer
    pc,             \* position inside crawl_repo_files
    org, repo, ref, subdir,   \* locals of crawl_repo_files
    all_paths,      \* local: result of fs.glob (None until glob has returned)
    idx,            \* number of loop iterations of "for path in all_paths" done
    out,            \* the sink: every character written so far
    written,        \* per loop iteration, the characters that iteration wrote
    token,          \* argument: personal access token or None
    username,       \* argument: user name or None
    include_dir,    \* keyword argument include_dir of the call (None: not passed)
    status_code,    \* response.status_code in verify_branch_exists (0: no response yet)
    calls,          \* collaborator calls made so far, in order
    error,          \* the exception that left crawl_repo_files, if any
    argv,           \* command line given to main
    mpc,            \* position inside main ("direct": crawl called directly)
    dirs,           \* directories that exist on the local disk
    created,        \* directories main created, in order
    opened,         \* output files main opened for writing, in order
    exit_code       \* process exit status of main (-1 while running)

vars == <<github_path, include_exts, exclude_exts, files, pc, org, repo, ref,
          subdir, all_paths, idx, out, written, token, username, status_code,
          calls, error, argv, mpc, dirs, created, opened, exit_code,
          include_dir>>

crawlVars == <<github_path, include_exts, exclude_exts, files, pc, org, repo,
               ref, subdir, all_paths, idx, out, written, token, username,
               status_code, calls, error>>
mainVars == <<argv, mpc, dirs, created, opened, exit_code>>

-----------------------------------------------------------------------------
(* Bounds of the model *)
MaxPaths == 2       \* longest listing glob returns
MaxSegs == 5        \* most '/'-separated segments before the ':' of an input
MaxRefSegs == 2     \* most '/'-separated segments after the ':' of an input

(* Program constants *)
PadWidth == 5       \* the 05 of f"{i:05d}"
HttpOk == 200       \* response.status_code != 200

-----------------------------------------------------------------------------
(* Python str primitives *)
NL == "\n"
None == <<"None">>

StartsWith(s, p) == Len(s) >= Len(p) /\ SubSeq(s, 1, Len(p)) = p
EndsWith(s, p) == Len(s) >= Len(p) /\ SubSeq(s, Len(s) - Len(p) + 1, Len(s)) = p
Contains(s, c) == \E i \in 1..Len(s) : s[i] = c
Find(s, c) == CHOOSE i \in 1..Len(s) : s[i] = c /\ \A j \in 1..(i - 1) : s[j] # c
RFind(s, c) == CHOOSE i \in 1..Len(s) : s[i] = c /\ \A j \in (i + 1)..Len(s) : s[j] # c

\* s.split(c, 1)
SplitOnce(s, c) ==
    IF Contains(s, c)
    THEN <<SubSeq(s, 1, Find(s, c) - 1), SubSeq(s, Find(s, c) + 1, Len(s))>>
    ELSE <<s>>

\* s.rsplit(c, 1)
RSplitOnce(s, c) ==
    IF Contains(s, c)
    THEN <<SubSeq(s, 1, RFind(s, c) - 1), SubSeq(s, RFind(s, c) + 1, Len(s))>>
    ELSE <<s>>

\* s.split(c)
RECURSIVE Split(_, _)
Split(s, c) ==
    IF Contains(s, c)
    THEN <<SubSeq(s, 1, Find(s, c) - 1)>> \o Split(SubSeq(s, Find(s, c) + 1, Len(s)), c)
    ELSE <<s>>

\* c.join(parts)
RECURSIVE Join(_, _)
Join(parts, c) ==
    IF Len(parts) = 0 THEN <<>>
    ELSE IF Len(parts) = 1 THEN parts[1]
    ELSE parts[1] \o <<c>> \o Join(Tail(parts), c)

\* str(i) for i >= 0
DigitChar(d) == <<"0", "1", "2", "3", "4", "5", "6", "7", "8", "9">>[d + 1]
RECURSIVE Str(_)
Str(i) == IF i < 10 THEN <<DigitChar(i)>> ELSE Str(i \div 10) \o <<DigitChar(i % 10)>>

RECURSIVE ZeroPad(_, _)
ZeroPad(s, w) == IF Len(s) >= w THEN s ELSE ZeroPad(<<"0">> \o s, w)

RECURSIVE Flatten(_)
Flatten(ss) == IF Len(ss) = 0 THEN <<>> ELSE ss[1] \o Flatten(Tail(ss))

-----------------------------------------------------------------------------
(* crawl_repo_files: parsing of the input path *)
GithubPrefix == <<"g", "i", "t", "h", "u", "b", ":", "/", "/">>
Main == <<"m", "a", "i", "n">>

PathWithoutPrefix(p) ==
    IF StartsWith(p, GithubPrefix)
    THEN SubSeq(p, Len(GithubPrefix) + 1, Len(p))
    ELSE IF Contains(p, ":")
         THEN SplitOnce(p, ":")[1] \o <<"/">> \o SplitOnce(p, ":")[2]
         ELSE p \o <<"/">> \o Main

Parts(p) == Split(PathWithoutPrefix(p), "/")

ParsedOrg(p) == Parts(p)[1]
ParsedRepo(p) == Parts(p)[2]
ParsedRef(p) == IF Len(Parts(p)) >= 3 THEN Parts(p)[3] ELSE Main
\* mutant: the subdirectory starts one segment too early, at the ref
ParsedSubdirFromRef(p) ==
    IF Len(Parts(p)) > 3 THEN Join(SubSeq(Parts(p), 3, Len(Parts(p))), "/") ELSE <<>>

ParsedSubdir(p) ==
    IF Len(Parts(p)) > 3 THEN Join(SubSeq(Parts(p), 4, Len(Parts(p))), "/") ELSE <<>>

\* mutant: the pattern is built without the test for an empty subdirectory
PatternNoEmptyTest(sd) == sd \o <<"/", "*", "*">>

\* pattern = f"{subdir}/**" if subdir else "**"
Pattern(sd) == IF sd # <<>> THEN sd \o <<"/", "*", "*">> ELSE <<"*", "*">>

NoError == [exc |-> "none", fmt |-> "", args |-> <<>>]
Raise(exc, fmt, args) == [exc |-> exc, fmt |-> fmt, args |-> args]

Call(op, args) == [op |-> op, args |-> args]

-----------------------------------------------------------------------------
(* crawl_repo_files: filtering and rendering of one listed entry *)
CouldNotGetInfoFor == <<"C", "o", "u", "l", "d", " ", "n", "o", "t", " ", "g", "e", "t", " ", "i", "n", "f", "o", " ", "f", "o", "r", " ">>
ErrorReading == <<"E", "r", "r", "o", "r", " ", "r", "e", "a", "d", "i", "n", "g", " ">>
Detail == <<"E">>     \* str(e) of an exception raised by info, open or read

\* mutant: the exclude list is applied even when an include list is given
KeptBothLists(path, inc, exc) ==
    /\ inc # {} => ~(Len(RSplitOnce(path, ".")) < 2 \/ RSplitOnce(path, ".")[2] \notin inc)
    /\ exc # {} => ~(Len(RSplitOnce(path, ".")) = 2 /\ RSplitOnce(path, ".")[2] \in exc)

\* mutant: a path without '.' is kept whatever the lists are
KeptWithoutDot(path, inc, exc) ==
    \/ Len(RSplitOnce(path, ".")) < 2
    \/ IF inc # {}
       THEN RSplitOnce(path, ".")[2] \in inc
       ELSE IF exc # {}
            THEN RSplitOnce(path, ".")[2] \notin exc
            ELSE TRUE

\* the filtering logic: TRUE when the loop does not "continue"
Kept(path, inc, exc) ==
    IF inc # {}
    THEN ~(Len(RSplitOnce(path, ".")) < 2 \/ RSplitOnce(path, ".")[2] \notin inc)
    ELSE IF exc # {}
         THEN ~(Len(RSplitOnce(path, ".")) = 2 /\ RSplitOnce(path, ".")[2] \in exc)
         ELSE TRUE

\* mutant: the number is padded to one digit less
Fmt04d(i) == ZeroPad(Str(i), PadWidth - 1)

\* f"{i:05d}"
Fmt05d(i) == ZeroPad(Str(i), PadWidth)

\* print(f"# {path}", file=out)
Header(path) == <<"#", " ">> \o path \o <<NL>>

\* print(f"{i:05d}| {line}", end='', file=out) for the first n lines
RECURSIVE NumberedLines(_, _)
NumberedLines(lines, n) ==
    IF n = 0 THEN <<>>
    ELSE NumberedLines(lines, n - 1) \o Fmt05d(n) \o <<"|", " ">> \o lines[n]

\* mutant: a failed read drops the lines already numbered
ReadOutputDropsLines(f) ==
    IF f.raise_after = -1
    THEN NumberedLines(f.lines, Len(f.lines)) \o <<NL>>
    ELSE ErrorReading \o f.path \o <<":", " ">> \o Detail \o <<NL>>

\* the try block around fs.open: f.raise_after = -1 when nothing raises, else
\* the number of lines the iteration yields before open/read raises
ReadOutput(f) ==
    IF f.raise_after = -1
    THEN NumberedLines(f.lines, Len(f.lines)) \o <<NL>>
    ELSE NumberedLines(f.lines, f.raise_after)
         \o ErrorReading \o f.path \o <<":", " ">> \o Detail \o <<NL>>

\* everything one iteration of "for path in all_paths" writes to the sink
EntryOutput(f, inc, exc) ==
    IF f.info = "raise"
    THEN CouldNotGetInfoFor \o f.path \o <<":", " ">> \o Detail \o <<NL>>
    ELSE IF f.info # "file" THEN <<>>
    ELSE IF ~Kept(f.path, inc, exc) THEN <<>>
    ELSE Header(f.path) \o ReadOutput(f)

\* the filesystem calls one iteration makes
EntryCalls(f, inc, exc) ==
    IF f.info = "file" /\ Kept(f.path, inc, exc)
    THEN <<Call("info", <<f.path>>), Call("open", <<f.path>>)>>
    ELSE <<Call("info", <<f.path>>)>>

-----------------------------------------------------------------------------
(* crawl_repo_files, step by step *)
InCrawl == mpc \in {"direct", "crawl"}

\* def crawl_repo_files(github_path, include_exts=None, exclude_exts=None,
\*                      token=None, username=None, out=None)
Parameters == {"github_path", "include_exts", "exclude_exts", "token", "username", "out"}

\* the keyword arguments of the call all name parameters
ArgumentsBind == include_dir = None \/ "include_dir" \in Parameters

\* a call with a keyword argument that names no parameter: Python raises
\* TypeError before the body runs
RejectKeyword ==
    /\ InCrawl /\ pc = "parse" /\ ~ArgumentsBind
    /\ error' = Raise("TypeError",
            "crawl_repo_files() got an unexpected keyword argument '{name}'",
            <<"include_dir">>)
    /\ pc' = "raised"
    /\ UNCHANGED <<github_path, include_exts, exclude_exts, files, org, repo, ref,
                   subdir, all_paths, idx, out, written, token, username,
                   status_code, calls>>
    /\ UNCHANGED <<mainVars, include_dir>>

ParsePath ==
    /\ InCrawl /\ pc = "parse" /\ ArgumentsBind
    /\ IF Len(Parts(github_path)) < 2
       THEN /\ error' = Raise("ValueError",
                   "Invalid GitHub path: must include at least org and repo.", <<>>)
            /\ pc' = "raised"
            /\ UNCHANGED <<org, repo, ref, subdir>>
       ELSE /\ org' = ParsedOrg(github_path)
            /\ repo' = ParsedRepo(github_path)
            /\ ref' = ParsedRef(github_path)
            /\ subdir' = ParsedSubdir(github_path)
            /\ pc' = "verify"
            /\ UNCHANGED error
    /\ UNCHANGED <<github_path, include_exts, exclude_exts, files, all_paths, idx,
                   out, written, token, username, status_code, calls>>
    /\ UNCHANGED <<mainVars, include_dir>>

\* verify_branch_exists(org, repo, ref, token)
VerifyBranch ==
    /\ InCrawl /\ pc = "verify"
    /\ calls' = Append(calls, Call("verify_branch_exists", <<org, repo, ref, token>>))
    /\ \E code \in {HttpOk, 404} :
         /\ status_code' = code
         /\ IF code # HttpOk
            THEN /\ error' = Raise("ValueError",
                        "Branch '{branch}' does not exist in repository '{org}/{repo}'.",
                        <<ref, org, repo>>)
                 /\ pc' = "raised"
            ELSE /\ pc' = "construct"
                 /\ UNCHANGED error
    /\ UNCHANGED <<github_path, include_exts, exclude_exts, files, org, repo, ref,
                   subdir, all_paths, idx, out, written, token, username>>
    /\ UNCHANGED <<mainVars, include_dir>>

\* fs = GithubFileSystem(org=org, repo=repo, sha=ref, token=token, username=username)
Construct ==
    /\ InCrawl /\ pc = "construct"
    /\ calls' = Append(calls, Call("GithubFileSystem", <<org, repo, ref, token, username>>))
    /\ pc' = "glob"
    /\ UNCHANGED <<github_path, include_exts, exclude_exts, files, org, repo, ref,
                   subdir, all_paths, idx, out, written, token, username, status_code, error>>
    /\ UNCHANGED <<mainVars, include_dir>>

\* mutant: an empty listing is not an error
GlobNoEmptyTest ==
    /\ InCrawl /\ pc = "glob"
    /\ calls' = Append(calls, Call("glob", <<Pattern(subdir)>>))
    /\ \E glob_raises \in BOOLEAN :
         IF glob_raises
         THEN /\ error' = Raise("ValueError",
                     "Failed to access branch '{ref}' in repository '{org}/{repo}'. Please verify that the branch exists.",
                     <<ref, org, repo>>)
              /\ pc' = "raised"
              /\ UNCHANGED all_paths
         ELSE /\ all_paths' = [i \in 1..Len(files) |-> files[i].path]
              /\ pc' = "loop"
              /\ UNCHANGED error
    /\ UNCHANGED <<github_path, include_exts, exclude_exts, files, org, repo, ref,
                   subdir, idx, out, written, token, username, status_code>>
    /\ UNCHANGED <<mainVars, include_dir>>

\* all_paths = fs.glob(pattern, recursive=True), and the two checks after it
Glob ==
    /\ InCrawl /\ pc = "glob"
    /\ calls' = Append(calls, Call("glob", <<Pattern(subdir)>>))
    /\ \E glob_raises \in BOOLEAN :
         IF glob_raises
         THEN /\ error' = Raise("ValueError",
                     "Failed to access branch '{ref}' in repository '{org}/{repo}'. Please verify that the branch exists.",
                     <<ref, org, repo>>)
              /\ pc' = "raised"
              /\ UNCHANGED all_paths
         ELSE /\ all_paths' = [i \in 1..Len(files) |-> files[i].path]
              /\ IF Len(files) = 0
                 THEN /\ error' = Raise("ValueError",
                             "No files found in repository '{org}/{repo}' for branch '{ref}'. This may be because the branch does not exist or is empty.",
                             <<org, repo, ref>>)
                      /\ pc' = "raised"
                 ELSE /\ pc' = "loop"
                      /\ UNCHANGED error
    /\ UNCHANGED <<github_path, include_exts, exclude_exts, files, org, repo, ref,
                   subdir, idx, out, written, token, username, status_code>>
    /\ UNCHANGED <<mainVars, include_dir>>

\* mutant: an exception of fs.info is not caught and leaves the function
ProcessEntryInfoUncaught ==
    /\ InCrawl /\ pc = "loop" /\ idx < Len(all_paths)
    /\ IF files[idx + 1].info = "raise"
       THEN /\ pc' = "raised"
            /\ error' = Raise("Exception", "{detail}", <<Detail>>)
            /\ calls' = Append(calls, Call("info", <<files[idx + 1].path>>))
            /\ UNCHANGED <<idx, out, written>>
       ELSE /\ idx' = idx + 1
            /\ out' = out \o EntryOutput(files[idx + 1], include_exts, exclude_exts)
            /\ written' = Append(written, EntryOutput(files[idx + 1], include_exts, exclude_exts))
            /\ calls' = calls \o EntryCalls(files[idx + 1], include_exts, exclude_exts)
            /\ UNCHANGED <<pc, error>>
    /\ UNCHANGED <<github_path, include_exts, exclude_exts, files, org, repo,
                   ref, subdir, all_paths, token, username, status_code>>
    /\ UNCHANGED <<mainVars, include_dir>>

\* one iteration of "for path in all_paths"
ProcessEntry ==
    /\ InCrawl /\ pc = "loop" /\ idx < Len(all_paths)
    /\ idx' = idx + 1
    /\ out' = out \o EntryOutput(files[idx + 1], include_exts, exclude_exts)
    /\ written' = Append(written, EntryOutput(files[idx + 1], include_exts, exclude_exts))
    /\ calls' = calls \o EntryCalls(files[idx + 1], include_exts, exclude_exts)
    /\ UNCHANGED <<github_path, include_exts, exclude_exts, files, pc, org, repo,
                   ref, subdir, all_paths, token, username, status_code, error>>
    /\ UNCHANGED <<mainVars, include_dir>>

\* the loop is exhausted: crawl_repo_files returns None
Return ==
    /\ InCrawl /\ pc = "loop" /\ idx = Len(all_paths)
    /\ pc' = "returned"
    /\ UNCHANGED <<github_path, include_exts, exclude_exts, files, org, repo, ref,
                   subdir, all_paths, idx, out, written, token, username, status_code,
                   calls, error>>
    /\ UNCHANGED <<mainVars, include_dir>>

NextCrawl == ParsePath \/ VerifyBranch \/ Construct \/ Glob \/ ProcessEntry \/ Return

-----------------------------------------------------------------------------
(* The inputs and the remote repositories the model ranges over *)
Names == {<<>>, <<"a">>, <<"b">>}
SegLists(n) == UNION {[1..k -> Names] : k \in 1..n}

\* github://seg/.../seg, seg/.../seg and seg/.../seg:seg/.../seg
PathInputs ==
    {GithubPrefix \o Join(s1, "/") : s1 \in SegLists(MaxSegs)}
    \cup {Join(s1, "/") \o tl :
            s1 \in SegLists(MaxSegs),
            tl \in {<<>>} \cup {<<":">> \o Join(s2, "/") : s2 \in SegLists(MaxRefSegs)}}

FewPathInputs == {<<"a", "/", "b">>, GithubPrefix \o <<"a", "/", "b", "/", "b", "/", "a">>}

ListedPaths == {<<"a", ".", "p">>, <<"b", ".", "t">>, <<"c">>, <<"d", ".">>}
Contents == {<<>>, << <<"x", NL>>, <<"y">> >>}
\* no list, the extension p, the empty extension ''
ExtSets == {{}, {<<"p">>}, {<<>>}}

Entry(path, info, lines, raise_after) ==
    [path |-> path, info |-> info, lines |-> lines, raise_after |-> raise_after]

Entries ==
    {Entry(p, i, <<>>, -1) : p \in ListedPaths, i \in {"raise", "directory"}}
    \cup UNION {{Entry(p, "file", c, r) : r \in (-1)..Len(c)} : p \in ListedPaths, c \in Contents}

Injective(s) == \A i, j \in 1..Len(s) : s[i].path = s[j].path => i = j
Repositories == {fs \in UNION {[1..k -> Entries] : k \in 0..MaxPaths} : Injective(fs)}

SmallRepositories ==
    {<<>>, <<Entry(<<"a", ".", "p">>, "file", << <<"x", NL>> >>, -1)>>}

NoArgv == [github_path |-> None, include |-> None, exclude |-> None,
           token |-> None, username |-> None, output |-> None]

InitCallWith(paths, repos, include_dirs) ==
    /\ include_dir \in include_dirs
    /\ github_path \in paths
    /\ include_exts \in ExtSets
    /\ exclude_exts \in ExtSets
    /\ files \in repos
    /\ token = None /\ username = None /\ status_code = 0
    /\ pc = "parse"
    /\ org = None /\ repo = None /\ ref = None /\ subdir = None
    /\ all_paths = None /\ idx = 0
    /\ out = <<>> /\ written = <<>> /\ calls = <<>>
    /\ error = NoError
    /\ argv = NoArgv /\ mpc = "direct"
    /\ dirs = {} /\ created = <<>> /\ opened = <<>> /\ exit_code = -1

InitCall(paths, repos) == InitCallWith(paths, repos, {None})

\* crawl_repo_files called directly on a few paths and every small repository
Init == InitCall(FewPathInputs, Repositories)
Next == NextCrawl
Spec == Init /\ [][Next]_vars

\* crawl_repo_files called directly, with and without include_dir
DirPathInputs == {GithubPrefix \o <<"a", "/", "b", "/", "b">>, <<"a", "/", "b">>}
IncludeDirs == {None, <<"s">>, <<"s", "/", "t">>}
InitDir == InitCallWith(DirPathInputs, Repositories, IncludeDirs)
NextDir == RejectKeyword \/ NextCrawl
SpecDir == InitDir /\ [][NextDir]_vars

\* crawl_repo_files called directly on every bounded input path
InitPaths == InitCall(PathInputs, SmallRepositories) /\ include_exts = {} /\ exclude_exts = {}
SpecPaths == InitPaths /\ [][Next]_vars

-----------------------------------------------------------------------------
(* main: os.path helpers (posix) *)
Sep == "/"

\* truth value of a str-or-None
Truthy(s) == s # None /\ s # <<>>

\* os.path.isabs
IsAbs(p) == StartsWith(p, <<Sep>>)

RECURSIVE RStripSep(_)
RStripSep(p) == IF Len(p) > 0 /\ p[Len(p)] = Sep THEN RStripSep(SubSeq(p, 1, Len(p) - 1)) ELSE p

\* os.path.basename
Basename(p) == IF Contains(p, Sep) THEN SubSeq(p, RFind(p, Sep) + 1, Len(p)) ELSE p

\* os.path.dirname
DirnameHead(p) == IF Contains(p, Sep) THEN SubSeq(p, 1, RFind(p, Sep)) ELSE <<>>
Dirname(p) ==
    IF DirnameHead(p) # <<>> /\ (\E i \in 1..Len(DirnameHead(p)) : DirnameHead(p)[i] # Sep)
    THEN RStripSep(DirnameHead(p))
    ELSE DirnameHead(p)

\* os.path.splitext(name)[1] for a name without separators
SplitExt2(name) ==
    IF Contains(name, ".") /\ (\E j \in 1..(RFind(name, ".") - 1) : name[j] # ".")
    THEN SubSeq(name, RFind(name, "."), Len(name))
    ELSE <<>>

\* the directories the while loop collects, deepest first
RECURSIVE MissingDirs(_, _)
MissingDirs(p, existing) ==
    IF p \notin existing /\ Dirname(p) # p
    THEN <<p>> \o MissingDirs(Dirname(p), existing)
    ELSE <<>>

Reversed(s) == [i \in 1..Len(s) |-> s[Len(s) + 1 - i]]

\* the list argparse stores for --include / --exclude (default=[])
ArgList(a) == IF a = None THEN {} ELSE {a[i] : i \in 1..Len(a)}

-----------------------------------------------------------------------------
(* main, step by step *)

\* args = parser.parse_args(): the mutually exclusive group
ParseArgs ==
    /\ mpc = "args"
    /\ IF argv.include # None /\ argv.exclude # None
       THEN mpc' = "exit" /\ exit_code' = 2
       ELSE mpc' = "token" /\ UNCHANGED exit_code
    /\ UNCHANGED <<argv, dirs, created, opened>>
    /\ UNCHANGED <<crawlVars, include_dir>>

\* mutant: the token is accepted without a username
CheckTokenNoTest ==
    /\ mpc = "token"
    /\ mpc' = "output"
    /\ UNCHANGED <<argv, dirs, created, opened, exit_code>>
    /\ UNCHANGED <<crawlVars, include_dir>>

\* if args.token and not args.username: parser.error(...)
CheckToken ==
    /\ mpc = "token"
    /\ IF Truthy(argv.token) /\ ~Truthy(argv.username)
       THEN mpc' = "exit" /\ exit_code' = 2
       ELSE mpc' = "output" /\ UNCHANGED exit_code
    /\ UNCHANGED <<argv, dirs, created, opened>>
    /\ UNCHANGED <<crawlVars, include_dir>>

\* if args.output: the three checks of the output path
ValidateOutput ==
    /\ mpc = "output"
    /\ IF Truthy(argv.output)
       THEN IF \/ ~IsAbs(argv.output)
               \/ EndsWith(argv.output, <<Sep>>)
               \/ SplitExt2(Basename(argv.output)) = <<>>
            THEN mpc' = "exit" /\ exit_code' = 1
            ELSE mpc' = "mkdirs" /\ UNCHANGED exit_code
       ELSE mpc' = "call" /\ UNCHANGED exit_code
    /\ UNCHANGED <<argv, dirs, created, opened>>
    /\ UNCHANGED <<crawlVars, include_dir>>

\* if not os.path.isdir(output_dir): create the missing directories
MakeDirs ==
    /\ mpc = "mkdirs"
    /\ created' = created \o Reversed(MissingDirs(Dirname(argv.output), dirs))
    /\ dirs' = dirs \cup {created'[i] : i \in 1..Len(created')}
    /\ mpc' = "open"
    /\ UNCHANGED <<argv, opened, exit_code>>
    /\ UNCHANGED <<crawlVars, include_dir>>

\* with open(output_path, "w", encoding="utf-8") as out_file
OpenOutput ==
    /\ mpc = "open"
    /\ opened' = Append(opened, argv.output)
    /\ mpc' = "call"
    /\ UNCHANGED <<argv, dirs, created, exit_code>>
    /\ UNCHANGED <<crawlVars, include_dir>>

\* crawl_repo_files(args.github_path, include_exts=args.include, ...)
CallCrawl ==
    /\ mpc = "call"
    /\ github_path' = argv.github_path
    /\ include_exts' = ArgList(argv.include)
    /\ exclude_exts' = ArgList(argv.exclude)
    /\ token' = argv.token
    /\ username' = argv.username
    /\ pc' = "parse"
    /\ mpc' = "crawl"
    /\ UNCHANGED <<files, org, repo, ref, subdir, all_paths, idx, out, written,
                   status_code, calls, error>>
    /\ UNCHANGED <<argv, dirs, created, opened, exit_code>>
    /\ UNCHANGED include_dir

\* crawl_repo_files returned, or its exception leaves main uncaught
MainExit ==
    /\ mpc = "crawl" /\ pc \in {"returned", "raised"}
    /\ exit_code' = IF pc = "raised" THEN 1 ELSE 0
    /\ mpc' = "exit"
    /\ UNCHANGED <<argv, dirs, created, opened>>
    /\ UNCHANGED <<crawlVars, include_dir>>

NextMain ==
    \/ ParseArgs \/ CheckToken \/ ValidateOutput \/ MakeDirs \/ OpenOutput
    \/ CallCrawl \/ MainExit
    \/ ParsePath \/ VerifyBranch \/ Construct \/ Glob \/ ProcessEntry \/ Return

OutputArgs ==
    {None, <<>>,
     <<"/", "d", "/", "e", "/", "f", ".", "t">>,   \* /d/e/f.t
     <<"/", "f", ".", "t">>,                       \* /f.t
     <<"d", "/", "f", ".", "t">>,                  \* d/f.t
     <<"/", "d", "/">>,                            \* /d/
     <<"/", "d", "/", "f">>,                       \* /d/f
     <<"/", "d", "/", ".", "h">>}                  \* /d/.h

\* --include / --exclude absent, given without values, given with one value
ExtArgs == {None, <<>>, << <<"p">> >>}

Root == <<"/">>

InitMain ==
    /\ argv \in [github_path : {<<"a", "/", "b">>, GithubPrefix \o <<"a">>},
                 include : ExtArgs,
                 exclude : ExtArgs,
                 token : {None, <<>>, <<"t">>},
                 username : {None, <<"u">>},
                 output : OutputArgs]
    /\ dirs \in {{Root}, {Root, <<"/", "d">>}}
    /\ files \in SmallRepositories
    /\ github_path = None /\ include_exts = {} /\ exclude_exts = {}
    /\ token = None /\ username = None /\ status_code = 0
    /\ include_dir = None
    /\ pc = "idle"
    /\ org = None /\ repo = None /\ ref = None /\ subdir = None
    /\ all_paths = None /\ idx = 0
    /\ out = <<>> /\ written = <<>> /\ calls = <<>>
    /\ error = NoError
    /\ mpc = "args"
    /\ created = <<>> /\ opened = <<>> /\ exit_code = -1

SpecMain == InitMain /\ [][NextMain]_vars

-----------------------------------------------------------------------------
(* Vocabulary of the properties *)
Range(s) == {s[i] : i \in 1..Len(s)}
CallsOf(op) == {c \in Range(calls) : c.op = op}

Pow10(k) == IF k = 0 THEN 1 ELSE IF k = 1 THEN 10 ELSE IF k = 2 THEN 100
            ELSE IF k = 3 THEN 1000 ELSE 10000

\* i written with exactly five decimal digits
FiveDigits(i) == [k \in 1..5 |-> DigitChar((i \div Pow10(5 - k)) % 10)]

\* '# <path>', then line i prefixed with i in five digits and '| '
NumberedPrefix(f, n) ==
    <<"#", " ">> \o f.path \o <<NL>>
    \o Flatten([i \in 1..n |-> FiveDigits(i) \o <<"|", " ">> \o f.lines[i]])

\* the block of a file: header, numbered lines, blank-line separator
Block(f) == NumberedPrefix(f, Len(f.lines)) \o <<NL>>

ReadOk(f) == f.info = "file" /\ f.raise_after = -1
KeptAndReadOk(f) == ReadOk(f) /\ Kept(f.path, include_exts, exclude_exts)

\* C1: every kept entry read without error contributes exactly its block
\* (header, lines numbered from 1 in five zero-padded digits, blank line), and
\* the sink is the contributions of the processed entries in listing order,
\* each complete before the next begins.
C1_BlocksInListingOrder ==
    /\ Len(written) = idx
    /\ \A i \in 1..Len(written) : all_paths[i] = files[i].path
    /\ out = Flatten([i \in 1..Len(written) |->
                        IF KeptAndReadOk(files[i]) THEN Block(files[i]) ELSE written[i]])

C1_Witness ==
    /\ pc = "returned" /\ Len(files) = 2
    /\ KeptAndReadOk(files[1]) /\ KeptAndReadOk(files[2])
    /\ Len(files[1].lines) = 2

\* the substring after the final '.', and the rule of the two lists
HasExtension(path) == Contains(path, ".") /\ path[Len(path)] # "."
Extension(path) == SubSeq(path, RFind(path, ".") + 1, Len(path))
ShouldRender(e) ==
    IF include_exts # {} THEN e \in include_exts
    ELSE IF exclude_exts # {} THEN e \notin exclude_exts
    ELSE TRUE

\* C2: a file entry with a non-empty extension e is rendered iff e is in
\* include_exts when that is non-empty (exclude_exts ignored), else iff e is
\* not in exclude_exts; a filtered entry writes nothing and is never opened.
C2_ExtensionFilter ==
    \A i \in 1..Len(written) :
        (files[i].info = "file" /\ HasExtension(files[i].path)) =>
            IF ShouldRender(Extension(files[i].path))
            THEN /\ StartsWith(written[i], <<"#", " ">> \o files[i].path \o <<NL>>)
                 /\ Call("open", <<files[i].path>>) \in Range(calls)
            ELSE /\ written[i] = <<>>
                 /\ Call("open", <<files[i].path>>) \notin Range(calls)

C2_Witness ==
    /\ pc = "returned" /\ Len(files) = 2
    /\ include_exts # {} /\ exclude_exts # {}
    /\ files[1].info = "file" /\ files[2].info = "file"
    /\ HasExtension(files[1].path) /\ HasExtension(files[2].path)
    /\ Extension(files[1].path) \in exclude_exts /\ written[1] # <<>>
    /\ written[2] = <<>>

-----------------------------------------------------------------------------
(* Shapes of the input path *)
HasPrefix(p) == StartsWith(p, GithubPrefix)
AfterPrefix(p) == SubSeq(p, Len(GithubPrefix) + 1, Len(p))
BeforeColon(p) == IF Contains(p, ":") THEN SubSeq(p, 1, Find(p, ":") - 1) ELSE p
AfterColon(p) == SubSeq(p, Find(p, ":") + 1, Len(p))
Segments(s) == Split(s, "/")
NonEmptySegments(s) == \A i \in 1..Len(Segments(s)) : Segments(s)[i] # <<>>

\* 'org/repo:ref'
IsOrgRepoRef(p) ==
    /\ ~HasPrefix(p) /\ Contains(p, ":")
    /\ Len(Segments(BeforeColon(p))) = 2 /\ NonEmptySegments(BeforeColon(p))
    /\ NonEmptySegments(AfterColon(p))

\* 'org/repo'
IsOrgRepo(p) ==
    /\ ~HasPrefix(p) /\ ~Contains(p, ":")
    /\ Len(Segments(p)) = 2 /\ NonEmptySegments(p)

\* 'github://s1/s2/s3/s4[/...]'
IsPrefixedWithSubdir(p) ==
    /\ HasPrefix(p) /\ Len(Segments(AfterPrefix(p))) > 3
    /\ \A i \in 1..3 : Segments(AfterPrefix(p))[i] # <<>>

LocatorCalls == CallsOf("verify_branch_exists") \cup CallsOf("GithubFileSystem")

\* C3: for 'org/repo:ref' the whole string after the first ':' is the branch
\* given to verify_branch_exists and the sha given to GithubFileSystem, with
\* org and repo the two segments before the colon.
C3_RefAfterColonVerbatim ==
    IsOrgRepoRef(github_path) =>
        \A c \in LocatorCalls :
            /\ c.args[1] = Segments(BeforeColon(github_path))[1]
            /\ c.args[2] = Segments(BeforeColon(github_path))[2]
            /\ c.args[3] = AfterColon(github_path)

\* C4: for 'org/repo' the ref is 'main' (for verify_branch_exists and for
\* GithubFileSystem), the subdirectory is empty and glob is given '**'.
C4_DefaultMainAndPattern ==
    IsOrgRepo(github_path) =>
        /\ pc # "parse" => (org # None /\ ref = Main /\ subdir = <<>>)
        /\ \A c \in LocatorCalls :
              /\ c.args[1] = Segments(github_path)[1]
              /\ c.args[2] = Segments(github_path)[2]
              /\ c.args[3] = Main
        /\ \A c \in CallsOf("glob") : c.args = << <<"*", "*">> >>

C4_Witness ==
    /\ IsOrgRepo(github_path)
    /\ CallsOf("glob") # {} /\ CallsOf("GithubFileSystem") # {}
    /\ pc = "returned"

ExpectedSubdir(p) == Join(SubSeq(Segments(AfterPrefix(p)), 4, Len(Segments(AfterPrefix(p)))), "/")

PrefixedLocator(p) ==
    \A c \in LocatorCalls :
        /\ c.args[1] = Segments(AfterPrefix(p))[1]
        /\ c.args[2] = Segments(AfterPrefix(p))[2]
        /\ c.args[3] = Segments(AfterPrefix(p))[3]
        /\ ~Contains(c.args[3], "/")

\* C5 as stated: with more than 3 segments after 'github://', glob is always
\* given '<subdirectory>/**'.
C5_PatternAlwaysSubdirStars ==
    IsPrefixedWithSubdir(github_path) =>
        /\ PrefixedLocator(github_path)
        /\ pc \notin {"parse", "raised"} => subdir = ExpectedSubdir(github_path)
        /\ \A c \in CallsOf("glob") :
              c.args = <<ExpectedSubdir(github_path) \o <<"/", "*", "*">> >>

\* C5 amended: with more than 3 segments after 'github://', s1 is the
\* organization, s2 the repository, s3 the ref (never containing '/'), the
\* '/'-join of the later segments the subdirectory, and glob is given
\* '<subdirectory>/**' when the subdirectory is non-empty and '**' when it is
\* empty (the input ends with a single '/' after the ref).
C5_PrefixedLocatorAndPattern ==
    IsPrefixedWithSubdir(github_path) =>
        /\ PrefixedLocator(github_path)
        /\ pc \notin {"parse", "raised"} => subdir = ExpectedSubdir(github_path)
        /\ \A c \in CallsOf("glob") :
              c.args = <<IF ExpectedSubdir(github_path) = <<>>
                         THEN <<"*", "*">>
                         ELSE ExpectedSubdir(github_path) \o <<"/", "*", "*">> >>

C5_Witness ==
    /\ IsPrefixedWithSubdir(github_path)
    /\ Len(Segments(AfterPrefix(github_path))) > 4
    /\ NonEmptySegments(AfterPrefix(github_path))
    /\ CallsOf("glob") # {}

\* an input with fewer than two path segments, or with more than two
\* segments before the ':' that separates the ref
FewerThanTwoSegments(p) ==
    IF HasPrefix(p)
    THEN Len(Segments(AfterPrefix(p))) < 2 /\ AfterPrefix(p) # <<>>
    ELSE Len(Segments(BeforeColon(p))) < 2 /\ BeforeColon(p) # <<>>
MoreThanTwoBeforeColon(p) ==
    ~HasPrefix(p) /\ Contains(p, ":") /\ Len(Segments(BeforeColon(p))) > 2

\* C6: such an input makes crawl_repo_files raise its usage ValueError before
\* verify_branch_exists or any filesystem call is made (the text of the
\* message is left out: no message of the code has the quoted wording).
C6_MalformedPathRaisesFirst ==
    (FewerThanTwoSegments(github_path) \/ MoreThanTwoBeforeColon(github_path)) =>
        /\ calls = <<>>
        /\ pc # "parse" => (pc = "raised" /\ error.exc = "ValueError")

-----------------------------------------------------------------------------
BranchMissing == "Branch '{branch}' does not exist in repository '{org}/{repo}'."
NoFilesFound == "No files found in repository '{org}/{repo}' for branch '{ref}'. This may be because the branch does not exist or is empty."

\* C7: a ref that verify_branch_exists reports missing raises an error naming
\* the ref and org/repo before the filesystem is constructed or glob called;
\* a glob that returns zero paths raises the empty-result error; when either
\* is raised the sink is empty and no info or open call has been made.
C7_FatalErrorsPrecedeOutput ==
    /\ (status_code # 0 /\ status_code # HttpOk) =>
          /\ pc = "raised"
          /\ error = Raise("ValueError", BranchMissing, <<ref, org, repo>>)
          /\ ref = ParsedRef(github_path)
          /\ CallsOf("GithubFileSystem") = {} /\ CallsOf("glob") = {}
    /\ all_paths = <<>> =>
          /\ pc = "raised"
          /\ error = Raise("ValueError", NoFilesFound, <<org, repo, ref>>)
    /\ error.fmt \in {BranchMissing, NoFilesFound} =>
          /\ out = <<>>
          /\ CallsOf("info") = {} /\ CallsOf("open") = {}

C7_Witness ==
    /\ all_paths = <<>> /\ pc = "raised" /\ error.fmt = NoFilesFound
    /\ CallsOf("glob") # {}

InLoopOrAfter == all_paths # None /\ all_paths # <<>>

\* C8: once the loop over the listing has started no exception leaves
\* crawl_repo_files, whichever entries fail in info or in open/read: it
\* returns only after every entry was processed, and every kept entry that
\* does not fail is rendered as its block, as when no entry fails.
C8_EntryFailuresNeverAbort ==
    /\ InLoopOrAfter => (pc \in {"loop", "returned"} /\ error = NoError)
    /\ pc = "returned" => (idx = Len(files) /\ Len(written) = Len(files))
    /\ (pc = "loop" /\ idx < Len(files)) => ENABLED ProcessEntry
    /\ \A i \in 1..Len(written) :
          KeptAndReadOk(files[i]) => written[i] = Block(files[i])

C8_Witness ==
    /\ pc = "returned" /\ Len(files) = 2
    /\ files[1].info = "raise"
    /\ KeptAndReadOk(files[2]) /\ Len(files[2].lines) = 2
    /\ written[2] = Block(files[2])

InfoFails(f) == f.info = "raise"
ReadFails(f) ==
    f.info = "file" /\ Kept(f.path, include_exts, exclude_exts) /\ f.raise_after # -1
InfoDiagnostic(f) == CouldNotGetInfoFor \o f.path \o <<":", " ">> \o Detail \o <<NL>>
ReadDiagnostic(f) == ErrorReading \o f.path \o <<":", " ">> \o Detail \o <<NL>>

\* C9 as stated: a failing entry contributes exactly one diagnostic line and
\* neither its header nor any numbered line.
C9_OnlyTheDiagnosticLine ==
    \A i \in 1..Len(written) :
        /\ InfoFails(files[i]) => written[i] = InfoDiagnostic(files[i])
        /\ ReadFails(files[i]) => written[i] = ReadDiagnostic(files[i])

\* C9 amended: an entry whose info raises contributes exactly the line
\* 'Could not get info for <path>: <detail>'; an entry whose open or read
\* raises contributes the header '# <path>', the numbered lines read before
\* the failure (none when open raises), then 'Error reading <path>: <detail>'
\* and a newline, without the blank-line separator.
C9_DiagnosticAfterWhatWasWritten ==
    \A i \in 1..Len(written) :
        /\ InfoFails(files[i]) => written[i] = InfoDiagnostic(files[i])
        /\ ReadFails(files[i]) =>
              written[i] = NumberedPrefix(files[i], files[i].raise_after)
                           \o ReadDiagnostic(files[i])

C9_Witness ==
    /\ pc = "returned" /\ Len(files) = 2
    /\ InfoFails(files[1])
    /\ ReadFails(files[2]) /\ files[2].raise_after = 1

-----------------------------------------------------------------------------
(* Command-line usage errors *)
Given(a) == a # None
NoDot(name) == ~Contains(name, ".")
LastSegment(p) == Segments(p)[Len(Segments(p))]
BadOutput(o) == o[1] # Sep \/ o[Len(o)] = Sep \/ NoDot(LastSegment(o))

NothingDone ==
    /\ calls = <<>> /\ created = <<>> /\ opened = <<>>
    /\ mpc \in {"args", "token", "output", "exit"}
    /\ mpc = "exit" => exit_code \in {1, 2}

\* C10 as stated: both --include and --exclude, --token without --username,
\* or a bad --output path end main with a non-zero exit before any remote
\* call, directory creation or opening of the output file.
C10_UsageErrorsPrecedeIO ==
    (\/ Given(argv.include) /\ Given(argv.exclude)
     \/ Given(argv.token) /\ ~Given(argv.username)
     \/ Given(argv.output) /\ (argv.output = <<>> \/ BadOutput(argv.output)))
    => NothingDone

\* C10 amended: the same for both --include and --exclude, for a non-empty
\* --token without --username, and for a non-empty --output path that is not
\* absolute, ends with a path separator, or has no file extension.
C10_NonEmptyUsageErrorsPrecedeIO ==
    (\/ Given(argv.include) /\ Given(argv.exclude)
     \/ Given(argv.token) /\ argv.token # <<>> /\ ~Given(argv.username)
     \/ Given(argv.output) /\ argv.output # <<>> /\ BadOutput(argv.output))
    => NothingDone

C10_Witness ==
    /\ mpc = "exit" /\ exit_code = 1
    /\ argv.output = <<"d", "/", "f", ".", "t">>
    /\ Given(argv.token) /\ Given(argv.username) /\ ~Given(argv.include)

-----------------------------------------------------------------------------
\* C11: crawl_repo_files accepts include_dir = d: the call binds, and for
\* 'github://user/repo/branch' glob is given 'd/**', so that only what the
\* listing returns under d is rendered.
C11_IncludeDirLimitsTheCrawl ==
    (/\ include_dir # None
     /\ HasPrefix(github_path) /\ Len(Segments(AfterPrefix(github_path))) = 3) =>
        /\ error.exc # "TypeError"
        /\ pc = "returned" => CallsOf("glob") # {}
        /\ \A c \in CallsOf("glob") : c.args = <<include_dir \o <<"/", "*", "*">> >>

-----------------------------------------------------------------------------
(* Entries without an extension *)
NoDotInPath(path) == ~Contains(path, ".")
EndsWithDot(path) == Len(path) > 0 /\ path[Len(path)] = "."
RenderedAt(i) == StartsWith(written[i], <<"#", " ">> \o files[i].path \o <<NL>>)

\* C12 as stated: whatever the two lists are, a file entry whose path has no
\* extension (no '.', or nothing after the final '.') is rendered.
C12_NoExtensionAlwaysRendered ==
    \A i \in 1..Len(written) :
        (files[i].info = "file"
         /\ (NoDotInPath(files[i].path) \/ EndsWithDot(files[i].path)))
        => RenderedAt(i)

\* C12 amended: a file entry whose path has no '.' is rendered when
\* include_exts is empty, whatever exclude_exts is, and is skipped when
\* include_exts is non-empty; a path with nothing after its final '.' has the
\* extension '', matched like any other: with include_exts non-empty it is
\* rendered iff '' is in include_exts, else it is rendered iff '' is not in
\* exclude_exts.  An entry that is not rendered writes nothing.
C12_NoExtensionFollowsTheLists ==
    \A i \in 1..Len(written) :
        files[i].info = "file" =>
            /\ NoDotInPath(files[i].path) => (RenderedAt(i) <=> include_exts = {})
            /\ EndsWithDot(files[i].path) =>
                  (RenderedAt(i) <=> IF include_exts # {}
                                     THEN <<>> \in include_exts
                                     ELSE <<>> \notin exclude_exts)
            /\ (NoDotInPath(files[i].path) \/ EndsWithDot(files[i].path)) =>
                  (RenderedAt(i) \/ written[i] = <<>>)

C12_Witness ==
    /\ pc = "returned" /\ Len(files) = 2
    /\ files[1].info = "file" /\ NoDotInPath(files[1].path)
    /\ files[2].info = "file" /\ EndsWithDot(files[2].path)
    /\ include_exts = {<<>>}
    /\ written[1] = <<>> /\ RenderedAt(2)

====
